---- MODULE Spec2Model ----
(***************************************************************************)
(* Streaming multimodal response assembler of Starlia and its CDN image    *)
(* resolution pipeline.                                                    *)
(*                                                                         *)
(* A text is a sequence of tokens.  A token is either one markup character *)
(* ("!", "[", "]", "(", ")"), one blank (" "), or a run of characters      *)
(* that contains neither markup nor blanks (a word or a URL).              *)
(* An optional field of a JavaScript object is a sequence of length 0      *)
(* (undefined) or 1 (the value); an absent or empty thoughtSignature is    *)
(* the empty string (both are falsy in the source).                        *)
(***************************************************************************)
EXTENDS Integers, Sequences, FiniteSets, TLC

(***************************************************************************)
(* Tokens                                                                  *)
(***************************************************************************)
Space == " "
UrlPng == "http://cdn.img/a.png"
UrlPngB == "http://cdn.img/b.png"
UrlKeyword == "http://h.io/image/1"
UrlHost == "http://lh3.googleusercontent.com/p"
UrlPlain == "http://h.io/doc"
NoScheme == "nourl"

\* tokens that start with a scheme and so make `new URL` succeed
SchemeTokens == {UrlPng, UrlPngB, UrlKeyword, UrlHost, UrlPlain}
\* tokens made of letters only: they can prefix a scheme ("khttp:")
LetterTokens == {"Look", "done", "x", "y", "image", NoScheme}
\* tokens that end with a recognised image extension
ExtTokens == {UrlPng, UrlPngB}
\* tokens that contain the substring "image"
KeywordTokens == {UrlKeyword, "image"}
\* scheme tokens whose host contains a known image domain
KnownHostTokens == {UrlHost}

Some(v) == <<v>>
None == <<>>

\* String.prototype.trim() is non-empty
NonBlank(s) == \E i \in 1..Len(s) : s[i] # Space

\* String.prototype.endsWith(' ')
EndsWithSpace(s) == Len(s) > 0 /\ s[Len(s)] = Space

\* text.slice(from, to) with 0-based `from` inclusive, `to` exclusive,
\* given here by the 1-based first and last position
Slice(s, first, last) == IF last < first THEN <<>> ELSE SubSeq(s, first, last)

(***************************************************************************)
(* Image Reference Parser.  The image regex of the source matches "!",    *)
(* "[", any run without "]", "]", "(", a non-empty run without ")", ")".   *)
(***************************************************************************)
\* smallest i >= from with s[i] = tok, 0 if there is none
RECURSIVE FirstIdx(_, _, _)
FirstIdx(s, from, tok) ==
  IF from > Len(s) THEN 0
  ELSE IF s[from] = tok THEN from
  ELSE FirstIdx(s, from + 1, tok)

\* the match of the image regex that starts exactly at position p, if any:
\* <<p, closing bracket, closing parenthesis>>, or <<>>
MatchAt(s, p) ==
  IF p + 1 > Len(s) \/ s[p] # "!" \/ s[p + 1] # "[" THEN <<>>
  ELSE LET rb == FirstIdx(s, p + 2, "]") IN
       IF rb = 0 \/ rb + 1 > Len(s) \/ s[rb + 1] # "(" THEN <<>>
       ELSE LET rp == FirstIdx(s, rb + 2, ")") IN
            IF rp = 0 \/ rp = rb + 2 THEN <<>>
            ELSE <<p, rb, rp>>

\* imageRegex.exec(text) with lastIndex = from - 1: the leftmost match
RECURSIVE RegexExec(_, _)
RegexExec(s, from) ==
  IF from > Len(s) THEN <<>>
  ELSE IF MatchAt(s, from) # <<>> THEN MatchAt(s, from)
  ELSE RegexExec(s, from + 1)

\* the while loop of parseMarkdownImages; lastIndex is 0-based in the
\* source, `last` is the 1-based position of the first unread token
RECURSIVE ParseLoop(_, _, _, _)
ParseLoop(s, last, textParts, imageUrls) ==
  LET m == RegexExec(s, last) IN
  IF m = <<>>
  THEN LET remaining == Slice(s, last, Len(s))
           tp1 == IF last <= Len(s) /\ NonBlank(remaining)
                  THEN Append(textParts, remaining) ELSE textParts
           tp2 == IF imageUrls = <<>> /\ NonBlank(s)
                  THEN Append(tp1, s) ELSE tp1
       IN [textParts |-> tp2, imageUrls |-> imageUrls]
  ELSE LET textBefore == Slice(s, last, m[1] - 1)
           tp == IF m[1] > last /\ NonBlank(textBefore)
                 THEN Append(textParts, textBefore) ELSE textParts
           img == [url |-> Slice(s, m[2] + 2, m[3] - 1),
                   alt |-> Slice(s, m[1] + 2, m[2] - 1)]
       IN ParseLoop(s, m[3] + 1, tp, Append(imageUrls, img))

parseMarkdownImages(text) == ParseLoop(text, 1, <<>>, <<>>)

(***************************************************************************)
(* Image Reference Validator                                               *)
(***************************************************************************)
\* position of the first token of url that carries a scheme, 0 if none
RECURSIVE FirstScheme(_, _)
FirstScheme(url, i) ==
  IF i > Len(url) THEN 0
  ELSE IF url[i] \in SchemeTokens THEN i
  ELSE FirstScheme(url, i + 1)

\* `new URL(url)` does not throw: after leading blanks (which the URL
\* parser strips) the text starts with letters followed by a scheme token
UrlParses(url) ==
  LET k == FirstScheme(url, 1) IN
  /\ k # 0
  /\ \E b \in 0..(k - 1) :
       /\ \A i \in 1..b : url[i] = Space
       /\ \A i \in (b + 1)..(k - 1) : url[i] \in LetterTokens

isValidImageUrl(url) ==
  IF ~UrlParses(url) THEN FALSE
  ELSE IF url[Len(url)] \in ExtTokens THEN TRUE
  ELSE IF \E i \in 1..Len(url) : url[i] \in KeywordTokens THEN TRUE
  ELSE url[FirstScheme(url, 1)] \in KnownHostTokens

containsCdnImages(text) ==
  LET imageUrls == parseMarkdownImages(text).imageUrls IN
  \E i \in 1..Len(imageUrls) : isValidImageUrl(imageUrls[i].url)

(***************************************************************************)
(* Bounded Image Fetcher and Concurrent Batch Downloader, as functions of  *)
(* the outcome of each fetch                                               *)
(***************************************************************************)
\* how a download settles: "network" is every failure other than the
\* timeout (the fetch rejects or the status is not ok: one thrown error)
Outcomes == {"ok", "timeout", "network"}

\* the value downloadImageAsBase64 resolves with when the fetch of url
\* succeeds; the body is named after the URL it was fetched from
Payload(url) == [mimeType |-> "image/png", base64Data |-> <<"data">> \o url]

\* what batchDownloadImages returns for urls when the fetch of urls[i]
\* ends with outcome[i]; an entry is None (null) or Some(image)
batchDownloadImages(urls, outcome) ==
  [i \in 1..Len(urls) |->
     IF isValidImageUrl(urls[i]) /\ outcome[i] = "ok"
     THEN Some([url |-> urls[i],
                mimeType |-> Payload(urls[i]).mimeType,
                base64Data |-> Payload(urls[i]).base64Data])
     ELSE None]

(***************************************************************************)
(* Content parts                                                           *)
(***************************************************************************)
TextPart(text, isThought, signature) ==
  [text |-> Some(text), inlineData |-> None,
   thought |-> isThought, thoughtSignature |-> signature]

\* a binary part that also carries an empty text
InlinePartWithText(mimeType, data, isThought, signature) ==
  [text |-> Some(<<>>), inlineData |-> Some([mimeType |-> mimeType, data |-> data]),
   thought |-> isThought, thoughtSignature |-> signature]

InlinePart(mimeType, data, isThought, signature) ==
  [text |-> None, inlineData |-> Some([mimeType |-> mimeType, data |-> data]),
   thought |-> isThought, thoughtSignature |-> signature]

\* part.text !== undefined
HasText(part) == part.text # None

\* `part.text` is truthy: defined and not the empty string
TextTruthy(part) == part.text # None /\ part.text[1] # <<>>

\* an append that always takes the signature of the fragment, absent or not
AppendOverwritingSignature(parts, text, signature) ==
  LET n == Len(parts) IN
  [parts EXCEPT ![n].text = Some(@[1] \o text),
                ![n].thoughtSignature = signature]

\* lastPart.text += text; if (signature) lastPart.thoughtSignature = signature
AppendToLast(parts, text, signature) ==
  LET n == Len(parts) IN
  [parts EXCEPT ![n].text = Some(@[1] \o text),
                ![n].thoughtSignature = IF signature # "" THEN signature ELSE @]

(***************************************************************************)
(* Part Merger                                                             *)
(***************************************************************************)
\* a coalescing test that forgets the thought state of the last part
CanCoalesceAnyThought(parts, isThought) ==
  /\ Len(parts) > 0
  /\ HasText(parts[Len(parts)])

\* the coalescing test of the three merge loops
CanCoalesce(parts, isThought) ==
  /\ Len(parts) > 0
  /\ HasText(parts[Len(parts)])
  /\ parts[Len(parts)].thought = isThought

\* regular text: append to the last text part or create a new one
MergeText(parts, text, isThought, signature) ==
  IF CanCoalesce(parts, isThought)
  THEN AppendToLast(parts, text, signature)
  ELSE Append(parts, TextPart(text, isThought, signature))

\* image data: always a new part
MergeInline(parts, inlineData, isThought, signature) ==
  Append(parts, InlinePart(IF inlineData.mimeType # "" THEN inlineData.mimeType
                           ELSE "image/png",
                           inlineData.data, isThought, signature))

(***************************************************************************)
(* processTextWithCdnImages                                                *)
(***************************************************************************)
\* `![${alt || 'image'}](${url})`
originalMarkdown(img) ==
  <<"!", "[">> \o (IF img.alt # <<>> THEN img.alt ELSE <<"image">>)
    \o <<"]", "(">> \o img.url \o <<")">>

\* textParts.forEach: one text part per non-blank text segment
RECURSIVE PushTextParts(_, _, _, _)
PushTextParts(parts, textParts, isThought, signature) ==
  IF textParts = <<>> THEN parts
  ELSE PushTextParts(
         IF NonBlank(Head(textParts))
         THEN Append(parts, TextPart(Head(textParts), isThought, signature))
         ELSE parts,
         Tail(textParts), isThought, signature)

\* imageResults.forEach, from index i on
RECURSIVE PushImageResults(_, _, _, _, _, _)
PushImageResults(parts, imageUrls, imageResults, i, isThought, signature) ==
  IF i > Len(imageResults) THEN parts
  ELSE LET next ==
         IF imageResults[i] # None
         THEN Append(parts, InlinePart(imageResults[i][1].mimeType,
                                       imageResults[i][1].base64Data,
                                       isThought, signature))
         ELSE IF Len(parts) > 0 /\ TextTruthy(parts[Len(parts)])
         THEN [parts EXCEPT ![Len(parts)].text =
                 Some(@[1] \o (IF EndsWithSpace(@[1]) THEN <<>> ELSE <<Space>>)
                           \o originalMarkdown(imageUrls[i]))]
         ELSE Append(parts, TextPart(originalMarkdown(imageUrls[i]),
                                     isThought, signature))
       IN PushImageResults(next, imageUrls, imageResults, i + 1,
                           isThought, signature)

\* the URLs handed to batchDownloadImages
UrlsOf(imageUrls) == [i \in 1..Len(imageUrls) |-> imageUrls[i].url]

\* outcome[i] is the outcome of the fetch of the i-th image of the text
processTextWithCdnImages(text, isThought, signature, outcome) ==
  LET parsed == parseMarkdownImages(text)
      parts0 == PushTextParts(<<>>, parsed.textParts, isThought, signature)
  IN IF Len(parsed.imageUrls) > 0
     THEN PushImageResults(parts0, parsed.imageUrls,
                           batchDownloadImages(UrlsOf(parsed.imageUrls), outcome),
                           1, isThought, signature)
     ELSE parts0

(***************************************************************************)
(* Fetch outcomes of one run: net maps the URLs fetched so far to the      *)
(* outcome of their fetch                                                  *)
(***************************************************************************)
\* fetch(url) can reach a server: after leading blanks the text starts with
\* an http scheme token; any other scheme ("khttp:") makes fetch reject
Fetchable(url) ==
  LET k == FirstScheme(url, 1) IN
  k # 0 /\ \A i \in 1..(k - 1) : url[i] = Space

\* the outcomes the fetch of url can have in a run of an assembler.  The
\* assemblers see a failed download only as null (batchDownloadImages), so
\* one kind of failure stands for all of them here
OutcomesOf(url) == IF Fetchable(url) THEN {"ok", "timeout"} ELSE {"network"}

\* the ways the fetches of a set of URLs can end
NetChoices(us) == {o \in [us -> Outcomes] : \A u \in us : o[u] \in OutcomesOf(u)}

OutcomeSeq(urls, n) ==
  [i \in 1..Len(urls) |->
     IF urls[i] \in DOMAIN n THEN n[urls[i]] ELSE "network"]

OutcomesOfText(text, n) == OutcomeSeq(UrlsOf(parseMarkdownImages(text).imageUrls), n)

\* the URLs of text that batchDownloadImages fetches
FetchedUrls(text) ==
  LET urls == UrlsOf(parseMarkdownImages(text).imageUrls) IN
  {urls[i] : i \in {j \in 1..Len(urls) : isValidImageUrl(urls[j])}}

(***************************************************************************)
(* Non-streaming assembler: processSdkParts                                *)
(***************************************************************************)
\* the for loop over sdkParts; st = [appParts, textProcessingQueue]
RECURSIVE SdkLoop(_, _, _)
SdkLoop(st, sdkParts, enableCdnProcessing) ==
  IF sdkParts = <<>> THEN st
  ELSE LET part == Head(sdkParts)
           next ==
             IF part.text # None
             THEN IF enableCdnProcessing /\ containsCdnImages(part.text[1])
                  THEN [st EXCEPT !.textProcessingQueue = Append(@, part)]
                  ELSE [st EXCEPT !.appParts =
                          MergeText(@, part.text[1], part.thought,
                                    part.thoughtSignature)]
             ELSE IF part.inlineData # None
             THEN [st EXCEPT !.appParts =
                     MergeInline(@, part.inlineData[1], part.thought,
                                 part.thoughtSignature)]
             ELSE st
       IN SdkLoop(next, Tail(sdkParts), enableCdnProcessing)

\* processedTextParts.flat().forEach(push)
RECURSIVE PushProcessed(_, _, _)
PushProcessed(appParts, queue, n) ==
  IF queue = <<>> THEN appParts
  ELSE PushProcessed(
         appParts \o processTextWithCdnImages(Head(queue).text[1],
                       Head(queue).thought, Head(queue).thoughtSignature,
                       OutcomesOfText(Head(queue).text[1], n)),
         Tail(queue), n)

processSdkParts(sdkParts, enableCdnProcessing, n) ==
  LET st == SdkLoop([appParts |-> <<>>, textProcessingQueue |-> <<>>],
                    sdkParts, enableCdnProcessing)
  IN PushProcessed(st.appParts, st.textProcessingQueue, n)

(***************************************************************************)
(* Server-side merge loop (geminiProxy streamGeminiResponse)               *)
(***************************************************************************)
RECURSIVE ServerParts(_, _)
ServerParts(parts, newParts) ==
  IF newParts = <<>> THEN parts
  ELSE LET part == Head(newParts) IN
       ServerParts(
         IF part.text # None
         THEN MergeText(parts, part.text[1], part.thought, part.thoughtSignature)
         ELSE IF part.inlineData # None
         THEN MergeInline(parts, part.inlineData[1], part.thought,
                          part.thoughtSignature)
         ELSE parts,
         Tail(newParts))

(***************************************************************************)
(* Provider fragments                                                      *)
(***************************************************************************)
TextFragment(text, isThought, signature) ==
  [text |-> Some(text), inlineData |-> None,
   thought |-> isThought, thoughtSignature |-> signature]

InlineFragment(mimeType, data, isThought, signature) ==
  [text |-> None, inlineData |-> Some([mimeType |-> mimeType, data |-> data]),
   thought |-> isThought, thoughtSignature |-> signature]

Markup(alt, url) == <<"!", "[">> \o alt \o <<"]", "(">> \o url \o <<")">>

TLook == <<"Look", Space>>
TImageDone == Markup(<<"x">>, <<UrlPng>>) \o <<Space, "done">>
TOpen == <<"!", "[">>
TClose == <<"x", "]", "(", UrlPng, ")">>
TNoAlt == Markup(<<>>, <<UrlPngB>>)
TTwo == <<"Look">> \o Markup(<<"x">>, <<UrlPng>>) \o <<"done">>
          \o Markup(<<"y">>, <<UrlPngB>>)

Fragments ==
  { TextFragment(TLook, FALSE, ""),
    TextFragment(TImageDone, FALSE, ""),
    TextFragment(TOpen, FALSE, ""),
    TextFragment(TClose, FALSE, ""),
    TextFragment(<<Space>>, FALSE, ""),
    TextFragment(TNoAlt, TRUE, "s1"),
    TextFragment(TTwo, FALSE, "s1"),
    TextFragment(Markup(<<"x">>, <<UrlPlain>>), FALSE, "s2"),
    TextFragment(<<"done">>, TRUE, ""),
    InlineFragment("", <<"B1">>, FALSE, ""),
    InlineFragment("image/jpeg", <<"B2">>, TRUE, "s2") }

(***************************************************************************)
(* Bounds                                                                  *)
(***************************************************************************)
MaxFrags == 3
MaxChunkLen == 2

(***************************************************************************)
(* State                                                                   *)
(***************************************************************************)
VARIABLES
  enableCdnImageProcessing, \* settings.enableCdnImageProcessing
  currentParts,             \* client streamGeminiResponse: currentParts
  pendingTextBuffer,        \* pendingTextBuffer
  lastThoughtState,         \* lastThoughtState
  lastSignature,            \* lastSignature ("" when undefined)
  pc,                       \* "read" (awaiting the next chunk), "resolving"
                            \* (awaiting processTextWithCdnImages), "done"
                            \* (returned), "failed" (threw)
  todo,                     \* parts of the current chunk not yet processed
  yielded,                  \* modelParts of the last yield, as yielded
  frags,                    \* fragments processed so far, in order
  aborted,                  \* signal.aborted
  exit,                     \* how the loop was left: "", "end", "abort",
                            \* "error" (an error was thrown to the caller)
  raised,                   \* the provider stream raised an error
  net,                      \* outcome of the fetch of each URL fetched
  lastPass,                 \* the latest resolution pass: its buffer, the
                            \* batch results and the parts it produced
  serverParts               \* currentParts of the server-side generator

streamVars == <<enableCdnImageProcessing, currentParts, pendingTextBuffer,
                lastThoughtState, lastSignature, pc, todo, yielded,
                frags, aborted, exit, raised, net, lastPass, serverParts>>

EmptyFn == [u \in {} |-> "ok"]

StreamInit ==
  /\ enableCdnImageProcessing \in BOOLEAN
  /\ currentParts = <<>>
  /\ pendingTextBuffer = <<>>
  /\ lastThoughtState = FALSE
  /\ lastSignature = ""
  /\ pc = "read"
  /\ todo = <<>>
  /\ yielded = <<>>
  /\ frags = <<>>
  /\ aborted = FALSE
  /\ exit = ""
  /\ raised = FALSE
  /\ net = EmptyFn
  /\ lastPass = [ran |-> FALSE, buffer |-> <<>>, results |-> <<>>, parts |-> <<>>]
  /\ serverParts = <<>>

(***************************************************************************)
(* Client streaming assembler: the body of the for-await loop              *)
(***************************************************************************)
\* the local state of the generator
Local == [currentParts |-> currentParts,
          pendingTextBuffer |-> pendingTextBuffer,
          lastThoughtState |-> lastThoughtState,
          lastSignature |-> lastSignature,
          frags |-> frags]

\* a text part: the three assignments before the CDN test
BufferText(st, part) ==
  [st EXCEPT !.pendingTextBuffer = @ \o part.text[1],
             !.lastThoughtState = part.thought,
             !.lastSignature = part.thoughtSignature]

\* the text part needs a resolution pass (the generator awaits)
NeedsResolve(st, part, enabled) ==
  /\ part.text # None
  /\ enabled
  /\ containsCdnImages(BufferText(st, part).pendingTextBuffer)

\* "Handle any pending text first" and the stream-end flush
FlushPending(st) ==
  IF NonBlank(st.pendingTextBuffer)
  THEN [st EXCEPT !.currentParts =
                    Append(@, TextPart(st.pendingTextBuffer,
                                       st.lastThoughtState, st.lastSignature))]
  ELSE st

\* one part of the chunk that needs no resolution pass
StepPart(st, part) ==
  IF part.text # None
  THEN LET b == BufferText(st, part) IN
       [b EXCEPT !.currentParts =
                   MergeText(@, part.text[1], part.thought, part.thoughtSignature),
                 !.frags = Append(@, part)]
  ELSE IF part.inlineData # None
  THEN LET f == FlushPending(st) IN
       [f EXCEPT !.pendingTextBuffer =
                   IF NonBlank(st.pendingTextBuffer) THEN <<>> ELSE @,
                 !.currentParts =
                   MergeInline(@, part.inlineData[1], part.thought,
                               part.thoughtSignature),
                 !.frags = Append(@, part)]
  ELSE [st EXCEPT !.frags = Append(@, part)]

\* the for loop over newParts, up to the next await or the yield
RECURSIVE RunParts(_, _, _)
RunParts(st, parts, enabled) ==
  IF parts = <<>> THEN [st |-> st, todo |-> <<>>, pc |-> "read"]
  ELSE IF NeedsResolve(st, Head(parts), enabled)
  THEN [st |-> BufferText(st, Head(parts)), todo |-> parts, pc |-> "resolving"]
  ELSE RunParts(StepPart(st, Head(parts)), Tail(parts), enabled)

\* index of the last part with text, 0 if there is none
RECURSIVE LastTextIndex(_, _)
LastTextIndex(parts, i) ==
  IF i = 0 THEN 0
  ELSE IF HasText(parts[i]) THEN i
  ELSE LastTextIndex(parts, i - 1)

\* currentParts.splice(index, 1)
RemoveAt(parts, i) == SubSeq(parts, 1, i - 1) \o SubSeq(parts, i + 1, Len(parts))

\* a splice that pushes the processed parts only if an image was resolved
SpliceIfResolved(st, part, processedParts) ==
  LET lastTextIndex == LastTextIndex(st.currentParts, Len(st.currentParts)) IN
  [st EXCEPT !.currentParts =
               (IF lastTextIndex # 0 THEN RemoveAt(@, lastTextIndex) ELSE @)
                 \o (IF \E k \in DOMAIN processedParts : ~HasText(processedParts[k])
                     THEN processedParts ELSE <<>>),
             !.pendingTextBuffer = <<>>,
             !.frags = Append(@, part)]

\* replace the last text part by the processed parts, clear the buffer
SpliceProcessed(st, part, processedParts) ==
  LET lastTextIndex == LastTextIndex(st.currentParts, Len(st.currentParts)) IN
  [st EXCEPT !.currentParts =
               (IF lastTextIndex # 0 THEN RemoveAt(@, lastTextIndex) ELSE @)
                 \o processedParts,
             !.pendingTextBuffer = <<>>,
             !.frags = Append(@, part)]

\* the generator reaches its next suspension point with result r
Suspend(r) ==
  /\ currentParts' = r.st.currentParts
  /\ pendingTextBuffer' = r.st.pendingTextBuffer
  /\ lastThoughtState' = r.st.lastThoughtState
  /\ lastSignature' = r.st.lastSignature
  /\ frags' = r.st.frags
  /\ todo' = r.todo
  /\ pc' = r.pc
  /\ yielded' = IF r.pc = "read" THEN r.st.currentParts ELSE yielded

\* a chunk: candidates missing or empty, or the parts of candidates[0],
\* at most maxLen of them
Chunks(maxLen) ==
  {[candidates |-> FALSE, parts |-> <<>>]} \cup
  {[candidates |-> TRUE, parts |-> ps] :
     ps \in UNION {[1..n -> Fragments] : n \in 0..maxLen}}

\* the provider stream delivers a chunk and the signal is not aborted
ReadChunk ==
  /\ pc = "read"
  /\ ~aborted
  /\ \E chunk \in Chunks(IF MaxFrags - Len(frags) < MaxChunkLen
                          THEN MaxFrags - Len(frags) ELSE MaxChunkLen) :
       /\ Len(frags) + Len(chunk.parts) <= MaxFrags
       /\ IF chunk.candidates
          THEN /\ Suspend(RunParts(Local, chunk.parts, enableCdnImageProcessing))
               /\ serverParts' = ServerParts(serverParts, chunk.parts)
          ELSE UNCHANGED <<currentParts, pendingTextBuffer, lastThoughtState,
                           lastSignature, frags, todo, pc, yielded, serverParts>>
  /\ UNCHANGED <<enableCdnImageProcessing, aborted, exit, raised, net,
                 lastPass>>

\* processTextWithCdnImages settles: splice, then go on with the chunk
FinishResolve ==
  /\ pc = "resolving"
  /\ LET part == Head(todo)
         urls == FetchedUrls(pendingTextBuffer)
     IN \E o \in NetChoices(urls \ DOMAIN net) :
          LET n == [u \in DOMAIN net \cup urls |->
                      IF u \in DOMAIN net THEN net[u] ELSE o[u]]
              processedParts ==
                processTextWithCdnImages(pendingTextBuffer, part.thought,
                    part.thoughtSignature, OutcomesOfText(pendingTextBuffer, n))
          IN /\ net' = n
             /\ lastPass' =
                  [ran |-> TRUE, buffer |-> pendingTextBuffer,
                   results |-> batchDownloadImages(
                                 UrlsOf(parseMarkdownImages(pendingTextBuffer).imageUrls),
                                 OutcomesOfText(pendingTextBuffer, n)),
                   parts |-> processedParts]
             /\ Suspend(RunParts(SpliceProcessed(Local, part, processedParts),
                                 Tail(todo), enableCdnImageProcessing))
  /\ UNCHANGED <<enableCdnImageProcessing, aborted, exit, raised,
                 serverParts>>

\* the loop is left: "Handle any remaining text buffer", generator returns
Leave(how) ==
  /\ currentParts' = FlushPending(Local).currentParts
  /\ pc' = "done"
  /\ exit' = how
  /\ UNCHANGED <<enableCdnImageProcessing, pendingTextBuffer, lastThoughtState,
                 lastSignature, todo, yielded, frags, aborted, raised, net,
                 lastPass, serverParts>>

\* the provider stream ends
StreamEnd == pc = "read" /\ Leave("end")

\* a chunk arrives after the signal was aborted: break
AbortBreak == pc = "read" /\ aborted /\ Leave("abort")

\* the caller aborts the signal
Abort ==
  /\ pc \in {"read", "resolving"}
  /\ ~aborted
  /\ aborted' = TRUE
  /\ UNCHANGED <<enableCdnImageProcessing, currentParts, pendingTextBuffer,
                 lastThoughtState, lastSignature, pc, todo, yielded,
                 frags, exit, raised, net, lastPass, serverParts>>

\* a catch clause that returns quietly once the signal is aborted
CatchQuietWhenAborted(isAborted) == IF isAborted THEN "return" ELSE "throw"

\* the catch clause around the loop: whatever the error and the signal, it
\* throws formatGeminiError(error)
CatchStreamError(isAborted) == "throw"

\* the provider stream raises instead of delivering its next chunk (or the
\* request itself fails): control passes to the catch clause, past the
\* final flush
StreamError ==
  /\ pc = "read"
  /\ raised' = TRUE
  /\ IF CatchStreamError(aborted) = "throw"
     THEN pc' = "failed" /\ exit' = "error"
     ELSE pc' = "done" /\ exit' = "end"
  /\ UNCHANGED <<enableCdnImageProcessing, currentParts, pendingTextBuffer,
                 lastThoughtState, lastSignature, todo, yielded, frags,
                 aborted, net, lastPass, serverParts>>

(***************************************************************************)
(* Concurrent Batch Downloader, step by step: one call of                  *)
(* batchDownloadImages(urls, concurrency, timeout)                         *)
(***************************************************************************)
MaxUrls == 4
MaxConcurrency == 2

\* the concurrency processTextWithCdnImages passes to batchDownloadImages
DefaultConcurrency == 3

\* the URLs a call can be given
UrlChoices == {<<UrlPng>>, <<UrlPngB>>, <<UrlPlain>>, <<NoScheme>>}

VARIABLES
  urls,         \* the argument urls
  concurrency,  \* the argument concurrency
  results,      \* the array results; None is null
  cursor,       \* cursor[k]: the index i at which processBatch number k
                \* awaits its download, 0 once that processBatch has returned
  inFlight,     \* indices whose downloadImageAsBase64 has not settled
  fetchOutcome, \* per index: the outcome of its fetch, "" if never fetched
  bpc           \* "idle", "running" (awaiting Promise.all), "returned",
                \* "rejected" (the call failed)

batchVars == <<urls, concurrency, results, cursor, inFlight, fetchOutcome, bpc>>

BatchInit ==
  /\ urls \in UNION {[1..n -> UrlChoices] : n \in 0..MaxUrls}
  /\ concurrency \in 1..MaxConcurrency
  /\ results = <<>>
  /\ cursor = <<>>
  /\ inFlight = {}
  /\ fetchOutcome = <<>>
  /\ bpc = "idle"

\* number of processBatch calls: startIndex = 0, concurrency, ... < length
NumBatches(n, c) == (n + c - 1) \div c

\* 1-based first and last index of processBatch number k
BatchFirst(k, c) == (k - 1) * c + 1
BatchLast(k, n, c) == IF k * c < n THEN k * c ELSE n

\* a loop that downloads every index without validating its URL
NextAwaitUnvalidated(us, i, last) == IF i > last THEN 0 ELSE i

\* the for loop of processBatch from index i on, up to its next await:
\* the first index in i..last whose URL is valid (its download is started),
\* 0 if the loop ends; rejected URLs are skipped without an await
RECURSIVE NextAwait(_, _, _)
NextAwait(us, i, last) ==
  IF i > last THEN 0
  ELSE IF isValidImageUrl(us[i]) THEN i
  ELSE NextAwait(us, i + 1, last)

\* a store that fills the array in completion order instead of by index
StoreResultInCompletionOrder(res, us, i, outcome) ==
  LET free == {j \in 1..Len(res) : res[j] = None}
      slot == IF free = {} THEN i ELSE CHOOSE j \in free : \A l \in free : j <= l
  IN [res EXCEPT ![slot] = IF outcome = "ok"
                          THEN Some([url |-> us[i],
                                     mimeType |-> Payload(us[i]).mimeType,
                                     base64Data |-> Payload(us[i]).base64Data])
                          ELSE None]

\* results[i] = { ...imageData, url: urls[i] } or, in the catch, null
StoreResult(res, us, i, outcome) ==
  [res EXCEPT ![i] = IF outcome = "ok"
                     THEN Some([url |-> us[i],
                                mimeType |-> Payload(us[i]).mimeType,
                                base64Data |-> Payload(us[i]).base64Data])
                     ELSE None]

\* the call: results is filled with null, every processBatch is called
\* and runs up to its first await
BatchCall ==
  /\ bpc = "idle"
  /\ bpc' = "running"
  /\ results' = [i \in 1..Len(urls) |-> None]
  /\ fetchOutcome' = [i \in 1..Len(urls) |-> ""]
  /\ cursor' = [k \in 1..NumBatches(Len(urls), concurrency) |->
                  NextAwait(urls, BatchFirst(k, concurrency),
                            BatchLast(k, Len(urls), concurrency))]
  /\ inFlight' = {cursor'[k] : k \in DOMAIN cursor'} \ {0}
  /\ UNCHANGED <<urls, concurrency>>

\* a catch clause that handles the timeout error only
CaughtIfTimeout(outcome) == outcome = "timeout"

\* the error thrown by a failed download is caught inside the loop of
\* processBatch (try around every index, catch without a rethrow)
Caught(outcome) == outcome \in Outcomes \ {"ok"}

\* the download awaited by processBatch number k settles with an outcome;
\* the loop of that processBatch runs on to its next await.  An error that
\* is not caught rejects that processBatch and with it Promise.all
FetchSettle ==
  /\ bpc = "running"
  /\ \E k \in DOMAIN cursor, outcome \in Outcomes :
       /\ cursor[k] # 0
       /\ LET i == cursor[k]
              next == NextAwait(urls, i + 1, BatchLast(k, Len(urls), concurrency))
          IN IF outcome = "ok" \/ Caught(outcome)
             THEN /\ results' = StoreResult(results, urls, i, outcome)
                  /\ fetchOutcome' = [fetchOutcome EXCEPT ![i] = outcome]
                  /\ cursor' = [cursor EXCEPT ![k] = next]
                  /\ inFlight' = (inFlight \ {i}) \cup ({next} \ {0})
                  /\ bpc' = bpc
             ELSE /\ fetchOutcome' = [fetchOutcome EXCEPT ![i] = outcome]
                  /\ cursor' = [cursor EXCEPT ![k] = 0]
                  /\ inFlight' = inFlight \ {i}
                  /\ bpc' = "rejected"
                  /\ results' = results
  /\ UNCHANGED <<urls, concurrency>>

\* Promise.all(batches) resolves: return results
BatchReturn ==
  /\ bpc = "running"
  /\ \A k \in DOMAIN cursor : cursor[k] = 0
  /\ bpc' = "returned"
  /\ UNCHANGED <<urls, concurrency, results, cursor, inFlight, fetchOutcome>>

(***************************************************************************)
(* Specifications                                                          *)
(***************************************************************************)
(***************************************************************************)
(* downloadImageAsBase64, step by step, against a clock.  Time is counted  *)
(* in ticks since the call; the timer set by setTimeout fires as soon as   *)
(* its delay has passed, so no tick goes by while an armed timer is due.   *)
(* Reading the received blob with the FileReader is local and is taken     *)
(* together with the arrival of the body.                                  *)
(***************************************************************************)
MaxTimeout == 2
MaxClock == MaxTimeout + 2

VARIABLES
  fUrl,           \* the url argument
  timeout,        \* the timeout argument, in ticks
  clock,          \* ticks since the call started, stopped when it settles
  timerArmed,     \* the setTimeout callback is pending
  signalAborted,  \* controller.signal.aborted
  fpc,            \* "idle", "fetch" (await fetch), "blob" (await
                  \* response.blob() and blobToBase64), "resolved", "rejected"
  fError,         \* the error of a rejected call: an outcome other than "ok"
  fResult         \* the value of a resolved call

fetchVars == <<fUrl, timeout, clock, timerArmed, signalAborted, fpc, fError,
               fResult>>

FetchInit ==
  /\ fUrl \in UrlChoices
  /\ timeout \in 1..MaxTimeout
  /\ clock = 0
  /\ timerArmed = FALSE
  /\ signalAborted = FALSE
  /\ fpc = "idle"
  /\ fError = ""
  /\ fResult = None

\* the catch clause: clearTimeout, then the timeout error if the signal is
\* aborted and the caught error otherwise
Reject(error) ==
  /\ timerArmed' = FALSE
  /\ fpc' = "rejected"
  /\ fError' = IF signalAborted' THEN "timeout" ELSE error

\* new AbortController, setTimeout, and the call of fetch
DownloadCall ==
  /\ fpc = "idle"
  /\ fpc' = "fetch"
  /\ timerArmed' = TRUE
  /\ UNCHANGED <<fUrl, timeout, clock, signalAborted, fError, fResult>>

\* one tick of time passes while the call is pending
Tick ==
  /\ fpc \in {"fetch", "blob"}
  /\ clock < MaxClock
  /\ ~(timerArmed /\ clock >= timeout)
  /\ clock' = clock + 1
  /\ UNCHANGED <<fUrl, timeout, timerArmed, signalAborted, fpc, fError,
                 fResult>>

\* the timer fires: controller.abort() rejects the pending fetch
TimerFires ==
  /\ timerArmed
  /\ clock >= timeout
  /\ fpc \in {"fetch", "blob"}
  /\ signalAborted' = TRUE
  /\ Reject("network")
  /\ UNCHANGED <<fUrl, timeout, clock, fResult>>

\* fetch resolves with the response headers: clearTimeout, then the status
\* check
HeadersArrive ==
  /\ fpc = "fetch"
  /\ \E ok \in BOOLEAN :
       IF ok
       THEN /\ timerArmed' = FALSE
            /\ fpc' = "blob"
            /\ UNCHANGED <<fError, signalAborted>>
       ELSE /\ UNCHANGED signalAborted
            /\ Reject("http")
  /\ UNCHANGED <<fUrl, timeout, clock, fResult>>

\* fetch rejects: no connection
FetchFails ==
  /\ fpc = "fetch"
  /\ UNCHANGED signalAborted
  /\ Reject("network")
  /\ UNCHANGED <<fUrl, timeout, clock, fResult>>

\* the body has arrived and was read: the call resolves; the mime type is
\* the content-type header or image/png
BodyDone ==
  /\ fpc = "blob"
  /\ \E contentType \in {"", "image/jpeg"} :
       fResult' = Some([mimeType |-> IF contentType = "" THEN "image/png"
                                      ELSE contentType,
                        base64Data |-> Payload(fUrl)])
  /\ fpc' = "resolved"
  /\ UNCHANGED <<fUrl, timeout, clock, timerArmed, signalAborted, fError>>

\* reading the body fails
BodyFails ==
  /\ fpc = "blob"
  /\ UNCHANGED signalAborted
  /\ Reject("network")
  /\ UNCHANGED <<fUrl, timeout, clock, fResult>>

(***************************************************************************)
(* generateContent: one non-streaming request                              *)
(***************************************************************************)
VARIABLES
  gEnable,    \* settings.enableCdnImageProcessing of the request
  gAborted,   \* signal.aborted
  gpc,        \* "idle", "requesting" (await ai.models.generateContent),
              \* "processing" (await processSdkParts), "returned", "failed"
  gError,     \* the error of a failed call: "" if none, "aborted",
              \* "no content", "request"
  response,   \* candidates[0].content.parts of the response
  gNet,       \* outcome of the fetch of each URL fetched
  modelParts  \* modelParts of the returned value

genVars == <<gEnable, gAborted, gpc, gError, response, gNet, modelParts>>

GenInit ==
  /\ gEnable \in BOOLEAN
  /\ gAborted \in BOOLEAN
  /\ gpc = "idle"
  /\ gError = ""
  /\ response = <<>>
  /\ gNet = EmptyFn
  /\ modelParts = <<>>

\* the URLs processSdkParts fetches for the fragments it queues
RECURSIVE QueuedUrls(_)
QueuedUrls(parts) ==
  IF parts = <<>> THEN {}
  ELSE (IF Head(parts).text # None /\ containsCdnImages(Head(parts).text[1])
        THEN FetchedUrls(Head(parts).text[1]) ELSE {})
         \cup QueuedUrls(Tail(parts))

\* the call: an aborted signal throws before the request is made
GenCall ==
  /\ gpc = "idle"
  /\ gpc' = IF gAborted THEN "failed" ELSE "requesting"
  /\ gError' = IF gAborted THEN "aborted" ELSE ""
  /\ UNCHANGED <<gEnable, gAborted, response, gNet, modelParts>>

\* the caller aborts the signal
GenAbort ==
  /\ gpc \in {"requesting", "processing"}
  /\ ~gAborted
  /\ gAborted' = TRUE
  /\ UNCHANGED <<gEnable, gpc, gError, response, gNet, modelParts>>

\* the response arrives: thrown away if the signal is aborted, an error if
\* it has no candidate with parts
GenResponse ==
  /\ gpc = "requesting"
  /\ \E candidate \in BOOLEAN,
        parts \in UNION {[1..n -> Fragments] : n \in 0..MaxFrags} :
       IF gAborted \/ ~candidate
       THEN /\ gpc' = "failed"
            /\ gError' = IF gAborted THEN "aborted" ELSE "no content"
            /\ response' = response
       ELSE /\ gpc' = "processing"
            /\ gError' = ""
            /\ response' = parts
  /\ UNCHANGED <<gEnable, gAborted, gNet, modelParts>>

\* the request fails
GenError ==
  /\ gpc = "requesting"
  /\ gpc' = "failed"
  /\ gError' = "request"
  /\ UNCHANGED <<gEnable, gAborted, response, gNet, modelParts>>

\* processSdkParts settles and generateContent returns
GenReturn ==
  /\ gpc = "processing"
  /\ \E n \in NetChoices(IF gEnable THEN QueuedUrls(response) ELSE {}) :
       /\ gNet' = n
       /\ modelParts' = processSdkParts(response, gEnable, n)
  /\ gpc' = "returned"
  /\ UNCHANGED <<gEnable, gAborted, gError, response>>

(***************************************************************************)
(* parseMarkdownImages, called on a text of its own                        *)
(***************************************************************************)
VARIABLES
  pText,    \* the argument text
  pResult,  \* the value returned: None before the return
  ppc       \* "idle", "returned"

parseVars == <<pText, pResult, ppc>>

MaxPieces == 3

\* what a text is made of: words, blanks, complete references with and
\* without alt text, and markup that is cut short or has an empty URL
Pieces ==
  { <<"Look">>,
    <<Space>>,
    Markup(<<"x">>, <<UrlPng>>),
    Markup(<<>>, <<UrlPngB>>),
    <<"!", "[", "x", "]", "(", UrlPng>>,
    <<"!", "[", "x", "]", "(", ")">>,
    <<"!", "[">>,
    <<")">> }

RECURSIVE Flatten(_)
Flatten(ss) == IF ss = <<>> THEN <<>> ELSE Head(ss) \o Flatten(Tail(ss))

Texts == {Flatten(ps) : ps \in UNION {[1..n -> Pieces] : n \in 0..MaxPieces}}

ParseInit ==
  /\ pText \in Texts
  /\ pResult = None
  /\ ppc = "idle"

\* no call of parseMarkdownImages is modelled on its own
ParseIdle ==
  /\ pText = <<>>
  /\ pResult = None
  /\ ppc = "idle"

\* the call runs to its return statement
ParseCall ==
  /\ ppc = "idle"
  /\ pResult' = Some(parseMarkdownImages(pText))
  /\ ppc' = "returned"
  /\ UNCHANGED pText

(***************************************************************************)
(* The SSE client: streamGeminiResponse reading /api/chat/stream.  The     *)
(* body is a sequence of tokens; NL is the newline, and a line is the      *)
(* tokens between two newlines.                                            *)
(***************************************************************************)
NL == "\n"
EventField == "event: "
DataField == "data: "

MaxEvents == 2

\* the modelParts of a chunk written by the server, as it is serialised
PartsTokens == {"P1", "P2"}

\* error.message on the server: two provider messages, and two that hold
\* a text the client looks for ("request failed" stands for the Chinese
\* words of the source)
ErrorMessages ==
  {"quota exceeded", "API key not valid", "request failed: quota",
   "check your API Key"}

\* message.includes(<request failed>) || message.includes('API Key')
Retained(message) == message \in {"request failed: quota", "check your API Key"}

\* stream.writeSSE({ data, event }): the event line, the data line and
\* the blank line that ends the event
writeSSE(data, event) == <<EventField, event, NL, DataField>> \o data \o <<NL, NL>>

\* JSON.stringify(chunk) and JSON.stringify({ error: error.message })
ChunkJson(modelPartsToken) == <<"{", modelPartsToken, "}">>
ErrorJson(message) == <<"{", "error", message, "}">>

RECURSIVE MessageEvents(_)
MessageEvents(ps) ==
  IF ps = <<>> THEN <<>>
  ELSE writeSSE(ChunkJson(Head(ps)), "message") \o MessageEvents(Tail(ps))

\* what the route writes: one message event per chunk of the provider
\* stream, then the done event, or the error event if the stream raised
Bodies ==
  {MessageEvents(ps) \o last :
     ps \in UNION {[1..n -> PartsTokens] : n \in 0..MaxEvents},
     last \in {writeSSE(<<"done">>, "done")}
              \cup {writeSSE(ErrorJson(m), "error") : m \in ErrorMessages}}

VARIABLES
  wire,        \* the part of the body that no read has returned yet
  sseSent,     \* the part of the body the reads have returned
  sseBuffer,   \* the local `buffer`
  sseYielded,  \* the modelParts of the items yielded, in order
  spc,         \* "idle", "reading", "returned" (generator done), "thrown"
  sseError,    \* the message of the error thrown, "" if none
  sseAborted,  \* signal.aborted
  sseSplit     \* some read ended inside a data line

sseVars == <<wire, sseSent, sseBuffer, sseYielded, spc, sseError, sseAborted,
             sseSplit>>

SseInit ==
  /\ wire \in Bodies
  /\ sseSent = <<>>
  /\ sseBuffer = <<>>
  /\ sseYielded = <<>>
  /\ spc = "idle"
  /\ sseError = ""
  /\ sseAborted = FALSE
  /\ sseSplit = FALSE

\* no call of the SSE client is modelled
SseIdle ==
  /\ wire = <<>>
  /\ sseSent = <<>>
  /\ sseBuffer = <<>>
  /\ sseYielded = <<>>
  /\ spc = "idle"
  /\ sseError = ""
  /\ sseAborted = FALSE
  /\ sseSplit = FALSE

\* buffer.split('\n')
RECURSIVE SplitLines(_)
SplitLines(s) ==
  LET k == FirstIdx(s, 1, NL) IN
  IF k = 0 THEN <<s>>
  ELSE <<Slice(s, 1, k - 1)>> \o SplitLines(Slice(s, k + 1, Len(s)))

\* a pop that keeps nothing of the incomplete line
PopNothing(lines) == <<>>

\* lines.pop() || ''
Pop(lines) == lines[Len(lines)]

\* String.prototype.trim()
RECURSIVE Trim(_)
Trim(s) ==
  IF s = <<>> THEN s
  ELSE IF Head(s) = Space THEN Trim(Tail(s))
  ELSE IF s[Len(s)] = Space THEN Trim(SubSeq(s, 1, Len(s) - 1))
  ELSE s

\* line.startsWith(field)
StartsWith(line, field) == Len(line) > 0 /\ line[1] = field

\* JSON.parse(data): ok is FALSE when it throws a SyntaxError
JsonParse(data) ==
  IF Len(data) = 3 /\ data[1] = "{" /\ data[3] = "}"
  THEN [ok |-> TRUE, error |-> "", modelParts |-> data[2]]
  ELSE IF Len(data) = 4 /\ data[1] = "{" /\ data[2] = "error" /\ data[4] = "}"
  THEN [ok |-> TRUE, error |-> data[3], modelParts |-> "undefined"]
  ELSE [ok |-> FALSE, error |-> "", modelParts |-> "undefined"]

\* the body of `for (const line of lines)` for one line; st is the
\* position of the generator, what it has yielded and what it has thrown
HandleLine(st, line, isAborted) ==
  IF st.pc # "reading" THEN st
  ELSE IF StartsWith(line, EventField) /\ Trim(Tail(line)) = <<"done">>
  THEN [st EXCEPT !.pc = "returned"]
  ELSE IF StartsWith(line, EventField) /\ Trim(Tail(line)) = <<"error">>
  THEN st
  ELSE IF ~StartsWith(line, DataField) THEN st
  ELSE LET data == Trim(Tail(line))
           parsed == JsonParse(data)
       IN IF data = <<"done">> THEN [st EXCEPT !.pc = "returned"]
          ELSE IF ~parsed.ok THEN st
          ELSE IF parsed.error # ""
          THEN IF Retained(parsed.error)
               THEN IF isAborted THEN [st EXCEPT !.pc = "returned"]
                    ELSE [st EXCEPT !.pc = "thrown", !.error = parsed.error]
               ELSE st
          ELSE [st EXCEPT !.yielded = Append(@, parsed.modelParts)]

RECURSIVE HandleLines(_, _, _)
HandleLines(st, lines, isAborted) ==
  IF lines = <<>> THEN st
  ELSE HandleLines(HandleLine(st, Head(lines), isAborted), Tail(lines), isAborted)

\* fetch resolves with an ok response that has a body
SseOpen ==
  /\ spc = "idle"
  /\ spc' = "reading"
  /\ UNCHANGED <<wire, sseSent, sseBuffer, sseYielded, sseError, sseAborted,
                 sseSplit>>

\* fetch resolves with a response that is not ok: the error is thrown
\* before the try block
SseHttpError ==
  /\ spc = "idle"
  /\ spc' = "thrown"
  /\ sseError' = "HTTP 500"
  /\ UNCHANGED <<wire, sseSent, sseBuffer, sseYielded, sseAborted, sseSplit>>

\* reader.read() resolves with the next bytes of the body, however many:
\* decode, split, keep the incomplete line, handle the complete ones
SseRead ==
  /\ spc = "reading"
  /\ ~sseAborted
  /\ \E n \in 1..Len(wire) :
       LET value == SubSeq(wire, 1, n)
           lines == SplitLines(sseBuffer \o value)
           r == HandleLines([pc |-> "reading", yielded |-> sseYielded,
                             error |-> ""],
                            SubSeq(lines, 1, Len(lines) - 1), sseAborted)
       IN /\ wire' = SubSeq(wire, n + 1, Len(wire))
          /\ sseSent' = sseSent \o value
          /\ sseBuffer' = Pop(lines)
          /\ sseYielded' = r.yielded
          /\ spc' = r.pc
          /\ sseError' = r.error
          /\ sseSplit' = (sseSplit \/ StartsWith(Pop(lines), DataField))
  /\ UNCHANGED sseAborted

\* reader.read() resolves with done: break, the generator returns
SseEnd ==
  /\ spc = "reading"
  /\ ~sseAborted
  /\ wire = <<>>
  /\ spc' = "returned"
  /\ UNCHANGED <<wire, sseSent, sseBuffer, sseYielded, sseError, sseAborted,
                 sseSplit>>

\* reader.read() rejects (the connection is lost): the catch clause throws
SseReadFails ==
  /\ spc = "reading"
  /\ ~sseAborted
  /\ spc' = "thrown"
  /\ sseError' = "network error"
  /\ UNCHANGED <<wire, sseSent, sseBuffer, sseYielded, sseAborted, sseSplit>>

\* the caller aborts the signal
SseAbort ==
  /\ spc = "reading"
  /\ ~sseAborted
  /\ sseAborted' = TRUE
  /\ UNCHANGED <<wire, sseSent, sseBuffer, sseYielded, spc, sseError, sseSplit>>

\* the signal is aborted: the check at the top of the loop breaks, or the
\* pending read rejects and the catch clause returns
SseAbortReturn ==
  /\ spc = "reading"
  /\ sseAborted
  /\ spc' = "returned"
  /\ UNCHANGED <<wire, sseSent, sseBuffer, sseYielded, sseError, sseAborted,
                 sseSplit>>

(***************************************************************************)
(* The chat view and its store: handleSend of the App component and the    *)
(* conversation and message actions of useAppStore, against the backend.   *)
(* A message is [id, role, parts, isError]; parts is a list of tokens.     *)
(***************************************************************************)
MaxConvs == 2
MaxSnapshots == 2

VARIABLES
  conversations,     \* ids of the conversations that exist
  backend,           \* per conversation id: the messages the backend holds
  activeConversationId,  \* 0 is null
  messages,          \* the messages of the store
  isLoading,
  abortController,   \* abortControllerRef.current: "null", "live", "aborted"
  hpc,               \* handleSend: "idle", "userCreate", "userSave",
                     \* "modelCreate", "modelSave", "streaming", "finished"
                     \* (returned after its finally block), "rejected"
                     \* (an error left it before the try block)
  convId,            \* the convId of the addMessage call that is pending
  snapshots,         \* number of snapshots the stream has yielded
  ended              \* how the try block was left: "", "done", "error",
                     \* "stopped"

appVars == <<conversations, backend, activeConversationId, messages, isLoading,
             abortController, hpc, convId, snapshots, ended>>

ConvIds == 1..(MaxConvs + 1)

\* the messages of a conversation of an earlier session
OldMessages(c) ==
  <<[id |-> 10 * c, role |-> "user", parts |-> <<"old prompt">>, isError |-> FALSE],
    [id |-> 10 * c + 1, role |-> "model", parts |-> <<"old answer">>,
     isError |-> FALSE]>>

\* userMessage and the model placeholder of handleSend
userMessage == [id |-> 0, role |-> "user", parts |-> <<"prompt">>, isError |-> FALSE]
modelMessage == [id |-> 1, role |-> "model", parts |-> <<>>, isError |-> FALSE]

\* chunk.modelParts of snapshot number k
SnapshotParts(k) == [i \in 1..k |-> "part"]

\* the state after loadData: the conversations of the backend, the first
\* of them active with its messages loaded, no request running
AppInit ==
  /\ conversations \in SUBSET (1..MaxConvs)
  /\ backend \in [ConvIds -> {<<>>} \cup {OldMessages(c) : c \in 1..MaxConvs}]
  /\ \A c \in ConvIds :
       backend[c] # <<>> => (c \in conversations /\ backend[c] = OldMessages(c))
  /\ activeConversationId \in conversations \cup {0}
  /\ activeConversationId = 0 <=> conversations = {}
  /\ messages = IF activeConversationId = 0 THEN <<>>
                ELSE backend[activeConversationId]
  /\ isLoading = FALSE
  /\ abortController = "null"
  /\ hpc = "idle"
  /\ convId = 0
  /\ snapshots = 0
  /\ ended = ""

\* no request of the chat view is modelled
AppIdle ==
  /\ conversations = {}
  /\ backend = [c \in ConvIds |-> <<>>]
  /\ activeConversationId = 0
  /\ messages = <<>>
  /\ isLoading = FALSE
  /\ abortController = "null"
  /\ hpc = "idle"
  /\ convId = 0
  /\ snapshots = 0
  /\ ended = ""

\* addMessage up to its first await: without an active conversation it
\* awaits createConversation, else it appends the message to the store and
\* awaits api.addMessage
BeginAddMessage(message, creating, saving) ==
  IF activeConversationId = 0
  THEN /\ hpc' = creating
       /\ UNCHANGED <<messages, convId>>
  ELSE /\ hpc' = saving
       /\ convId' = activeConversationId
       /\ messages' = Append(messages, message)

\* handleSend is called: setLoading(true), then addMessage(userMessage)
HandleSend ==
  /\ hpc = "idle"
  /\ ~isLoading
  /\ isLoading' = TRUE
  /\ BeginAddMessage(userMessage, "userCreate", "userSave")
  /\ UNCHANGED <<conversations, backend, activeConversationId, abortController,
                 snapshots, ended>>

\* the message addMessage is adding
Adding == IF hpc \in {"userCreate", "userSave"} THEN userMessage ELSE modelMessage

\* api.createConversation resolves inside addMessage: the new conversation
\* becomes the active one with no messages, the message is appended and
\* api.addMessage is awaited
CreateResolves ==
  /\ hpc \in {"userCreate", "modelCreate"}
  /\ \E c \in ConvIds \ conversations :
       /\ conversations' = conversations \cup {c}
       /\ backend' = [backend EXCEPT ![c] = <<>>]
       /\ activeConversationId' = c
       /\ convId' = c
       /\ messages' = <<Adding>>
  /\ hpc' = IF hpc = "userCreate" THEN "userSave" ELSE "modelSave"
  /\ UNCHANGED <<isLoading, abortController, snapshots, ended>>

\* an api request awaited by addMessage fails: addMessage rejects, and
\* with it handleSend, whose awaits of addMessage stand before its try
AddRejects ==
  /\ hpc \in {"userCreate", "userSave", "modelCreate", "modelSave"}
  /\ hpc' = "rejected"
  /\ UNCHANGED <<conversations, backend, activeConversationId, messages,
                 isLoading, abortController, convId, snapshots, ended>>

\* api.addMessage(convId, userMessage) resolves; handleSend goes on to
\* addMessage(modelMessage)
SaveUserResolves ==
  /\ hpc = "userSave"
  /\ convId \in conversations
  /\ backend' = [backend EXCEPT ![convId] = Append(@, userMessage)]
  /\ BeginAddMessage(modelMessage, "modelCreate", "modelSave")
  /\ UNCHANGED <<conversations, activeConversationId, isLoading,
                 abortController, snapshots, ended>>

\* api.addMessage(convId, modelMessage) resolves; handleSend enters its try
\* block, creates the AbortController and starts the stream
SaveModelResolves ==
  /\ hpc = "modelSave"
  /\ convId \in conversations
  /\ backend' = [backend EXCEPT ![convId] = Append(@, modelMessage)]
  /\ abortController' = "live"
  /\ hpc' = "streaming"
  /\ UNCHANGED <<conversations, activeConversationId, messages, isLoading,
                 convId, snapshots, ended>>

\* updateLastMessage(parts, isError)
updateLastMessage(msgs, parts, isError) ==
  IF Len(msgs) > 0
  THEN [msgs EXCEPT ![Len(msgs)].parts = parts, ![Len(msgs)].isError = isError]
  ELSE msgs

\* api.updateMessage(id, data) on the backend
UpdateMessage(store, id, parts, isError) ==
  [c \in DOMAIN store |->
     [i \in DOMAIN store[c] |->
        IF store[c][i].id = id
        THEN [store[c][i] EXCEPT !.parts = parts, !.isError = isError]
        ELSE store[c][i]]]

\* the finally block of handleSend: setLoading(false), which sends the
\* last message of the store to the backend if it is a model message, and
\* abortControllerRef.current = null
Finally(msgs, how) ==
  /\ ended' = how
  /\ isLoading' = FALSE
  /\ backend' = IF Len(msgs) > 0 /\ activeConversationId # 0
                   /\ msgs[Len(msgs)].role = "model"
                THEN UpdateMessage(backend, msgs[Len(msgs)].id,
                                   msgs[Len(msgs)].parts, msgs[Len(msgs)].isError)
                ELSE backend
  /\ abortController' = "null"
  /\ hpc' = "finished"

\* the stream yields a snapshot: updateLastMessage(chunk.modelParts, false)
Snapshot ==
  /\ hpc = "streaming"
  /\ abortController = "live"
  /\ snapshots < MaxSnapshots
  /\ snapshots' = snapshots + 1
  /\ messages' = updateLastMessage(messages, SnapshotParts(snapshots + 1), FALSE)
  /\ UNCHANGED <<conversations, backend, activeConversationId, isLoading,
                 abortController, hpc, convId, ended>>

\* the stream ends: the try block is left normally
StreamDone ==
  /\ hpc = "streaming"
  /\ abortController = "live"
  /\ Finally(messages, "done")
  /\ UNCHANGED <<conversations, activeConversationId, messages, convId,
                 snapshots>>

\* the stream throws and the signal is not aborted: the catch clause puts
\* the error text into the last message
StreamThrows ==
  /\ hpc = "streaming"
  /\ abortController = "live"
  /\ messages' = updateLastMessage(messages, <<"Error: message">>, TRUE)
  /\ Finally(messages', "error")
  /\ UNCHANGED <<conversations, activeConversationId, convId, snapshots>>

\* handleStop
HandleStop ==
  /\ abortController = "live"
  /\ abortController' = "aborted"
  /\ UNCHANGED <<conversations, backend, activeConversationId, messages,
                 isLoading, hpc, convId, snapshots, ended>>

\* the stream ends or throws after the signal was aborted: the loop is
\* left or the catch clause returns
StreamAborted ==
  /\ hpc = "streaming"
  /\ abortController = "aborted"
  /\ Finally(messages, "stopped")
  /\ UNCHANGED <<conversations, activeConversationId, messages, convId,
                 snapshots>>

\* switchConversation(id) from the history panel, which stays usable while
\* a request runs: the messages of the backend replace those of the store
SwitchConversation ==
  /\ \E id \in conversations \ {activeConversationId} :
       /\ activeConversationId' = id
       /\ messages' = backend[id]
  /\ UNCHANGED <<conversations, backend, isLoading, abortController, hpc,
                 convId, snapshots, ended>>

\* createConversation() from the history panel
CreateConversation ==
  /\ \E c \in ConvIds \ conversations :
       /\ conversations' = conversations \cup {c}
       /\ backend' = [backend EXCEPT ![c] = <<>>]
       /\ activeConversationId' = c
  /\ messages' = <<>>
  /\ UNCHANGED <<isLoading, abortController, hpc, convId, snapshots, ended>>

\* deleteConversation(id) from the history panel: if it was the active
\* one, the first conversation left becomes active, or none
DeleteConversation ==
  /\ \E id \in conversations :
       LET left == conversations \ {id}
           first == CHOOSE c \in left : \A d \in left : c <= d
       IN /\ conversations' = left
          /\ backend' = [backend EXCEPT ![id] = <<>>]
          /\ IF activeConversationId # id
             THEN UNCHANGED <<activeConversationId, messages>>
             ELSE IF left # {}
             THEN activeConversationId' = first /\ messages' = backend[first]
             ELSE activeConversationId' = 0 /\ messages' = <<>>
  /\ UNCHANGED <<isLoading, abortController, hpc, convId, snapshots, ended>>

\* the variables of the models that follow the four assemblers
moreVars == <<parseVars, sseVars, appVars>>

MoreIdle == ParseIdle /\ SseIdle /\ AppIdle

vars == <<streamVars, batchVars, fetchVars, genVars, moreVars>>

\* no call of generateContent is modelled
GenIdle ==
  /\ gEnable = TRUE
  /\ gAborted = FALSE
  /\ gpc = "idle"
  /\ gError = ""
  /\ response = <<>>
  /\ gNet = EmptyFn
  /\ modelParts = <<>>

\* no call of downloadImageAsBase64 is modelled step by step
FetchIdle ==
  /\ fUrl = <<UrlPng>>
  /\ timeout = MaxTimeout
  /\ clock = 0
  /\ timerArmed = FALSE
  /\ signalAborted = FALSE
  /\ fpc = "idle"
  /\ fError = ""
  /\ fResult = None

\* the streaming assembler; no batch call is modelled step by step
BatchIdle ==
  /\ urls = <<>>
  /\ concurrency = DefaultConcurrency
  /\ results = <<>>
  /\ cursor = <<>>
  /\ inFlight = {}
  /\ fetchOutcome = <<>>
  /\ bpc = "idle"

Init == StreamInit /\ BatchIdle /\ FetchIdle /\ GenIdle /\ MoreIdle

Next ==
  \/ ReadChunk /\ UNCHANGED <<batchVars, fetchVars, genVars, moreVars>>
  \/ FinishResolve /\ UNCHANGED <<batchVars, fetchVars, genVars, moreVars>>
  \/ StreamEnd /\ UNCHANGED <<batchVars, fetchVars, genVars, moreVars>>
  \/ AbortBreak /\ UNCHANGED <<batchVars, fetchVars, genVars, moreVars>>
  \/ Abort /\ UNCHANGED <<batchVars, fetchVars, genVars, moreVars>>
  \/ StreamError /\ UNCHANGED <<batchVars, fetchVars, genVars, moreVars>>

Spec == Init /\ [][Next]_vars

\* one call of batchDownloadImages
StreamIdle == StreamInit /\ enableCdnImageProcessing

BatchSpecInit == StreamIdle /\ BatchInit /\ FetchIdle /\ GenIdle /\ MoreIdle

BatchNext ==
  \/ BatchCall /\ UNCHANGED <<streamVars, fetchVars, genVars, moreVars>>
  \/ FetchSettle /\ UNCHANGED <<streamVars, fetchVars, genVars, moreVars>>
  \/ BatchReturn /\ UNCHANGED <<streamVars, fetchVars, genVars, moreVars>>

BatchSpec == BatchSpecInit /\ [][BatchNext]_vars

\* one call of downloadImageAsBase64
FetchSpecInit == StreamIdle /\ BatchIdle /\ FetchInit /\ GenIdle /\ MoreIdle

FetchNext ==
  \/ DownloadCall /\ UNCHANGED <<streamVars, batchVars, genVars, moreVars>>
  \/ Tick /\ UNCHANGED <<streamVars, batchVars, genVars, moreVars>>
  \/ TimerFires /\ UNCHANGED <<streamVars, batchVars, genVars, moreVars>>
  \/ HeadersArrive /\ UNCHANGED <<streamVars, batchVars, genVars, moreVars>>
  \/ FetchFails /\ UNCHANGED <<streamVars, batchVars, genVars, moreVars>>
  \/ BodyDone /\ UNCHANGED <<streamVars, batchVars, genVars, moreVars>>
  \/ BodyFails /\ UNCHANGED <<streamVars, batchVars, genVars, moreVars>>

FetchSpec == FetchSpecInit /\ [][FetchNext]_vars

\* one call of generateContent
GenSpecInit == StreamIdle /\ BatchIdle /\ FetchIdle /\ GenInit /\ MoreIdle

GenNext ==
  \/ GenCall /\ UNCHANGED <<streamVars, batchVars, fetchVars, moreVars>>
  \/ GenAbort /\ UNCHANGED <<streamVars, batchVars, fetchVars, moreVars>>
  \/ GenResponse /\ UNCHANGED <<streamVars, batchVars, fetchVars, moreVars>>
  \/ GenError /\ UNCHANGED <<streamVars, batchVars, fetchVars, moreVars>>
  \/ GenReturn /\ UNCHANGED <<streamVars, batchVars, fetchVars, moreVars>>

GenSpec == GenSpecInit /\ [][GenNext]_vars

\* one call of parseMarkdownImages
coreVars == <<streamVars, batchVars, fetchVars, genVars>>

CoreIdle == StreamIdle /\ BatchIdle /\ FetchIdle /\ GenIdle

ParseSpecInit == CoreIdle /\ ParseInit /\ SseIdle /\ AppIdle

ParseNext == ParseCall /\ UNCHANGED <<coreVars, sseVars, appVars>>

ParseSpec == ParseSpecInit /\ [][ParseNext]_vars

\* one call of the SSE client
SseSpecInit == CoreIdle /\ ParseIdle /\ SseInit /\ AppIdle

SseNext ==
  \/ SseOpen /\ UNCHANGED <<coreVars, parseVars, appVars>>
  \/ SseHttpError /\ UNCHANGED <<coreVars, parseVars, appVars>>
  \/ SseRead /\ UNCHANGED <<coreVars, parseVars, appVars>>
  \/ SseEnd /\ UNCHANGED <<coreVars, parseVars, appVars>>
  \/ SseReadFails /\ UNCHANGED <<coreVars, parseVars, appVars>>
  \/ SseAbort /\ UNCHANGED <<coreVars, parseVars, appVars>>
  \/ SseAbortReturn /\ UNCHANGED <<coreVars, parseVars, appVars>>

SseSpec == SseSpecInit /\ [][SseNext]_vars

\* one request of the chat view, with the history panel in use
AppSpecInit == CoreIdle /\ ParseIdle /\ SseIdle /\ AppInit

AppNext ==
  \/ HandleSend /\ UNCHANGED <<coreVars, parseVars, sseVars>>
  \/ CreateResolves /\ UNCHANGED <<coreVars, parseVars, sseVars>>
  \/ AddRejects /\ UNCHANGED <<coreVars, parseVars, sseVars>>
  \/ SaveUserResolves /\ UNCHANGED <<coreVars, parseVars, sseVars>>
  \/ SaveModelResolves /\ UNCHANGED <<coreVars, parseVars, sseVars>>
  \/ Snapshot /\ UNCHANGED <<coreVars, parseVars, sseVars>>
  \/ StreamDone /\ UNCHANGED <<coreVars, parseVars, sseVars>>
  \/ StreamThrows /\ UNCHANGED <<coreVars, parseVars, sseVars>>
  \/ HandleStop /\ UNCHANGED <<coreVars, parseVars, sseVars>>
  \/ StreamAborted /\ UNCHANGED <<coreVars, parseVars, sseVars>>
  \/ SwitchConversation /\ UNCHANGED <<coreVars, parseVars, sseVars>>
  \/ CreateConversation /\ UNCHANGED <<coreVars, parseVars, sseVars>>
  \/ DeleteConversation /\ UNCHANGED <<coreVars, parseVars, sseVars>>

AppSpec == AppSpecInit /\ [][AppNext]_vars

\* every api request awaited by addMessage settles, and the stream ends,
\* throws or is stopped; what the user does is not forced
FairAppSpec ==
  /\ AppSpec
  /\ WF_vars((CreateResolves \/ SaveUserResolves \/ SaveModelResolves
                \/ AddRejects) /\ UNCHANGED <<coreVars, parseVars, sseVars>>)
  /\ WF_vars((StreamDone \/ StreamThrows \/ StreamAborted)
               /\ UNCHANGED <<coreVars, parseVars, sseVars>>)

\* every download settles, and the event loop runs every continuation
\* that is ready
FairBatchSpec ==
  /\ BatchSpec
  /\ WF_vars(BatchCall /\ UNCHANGED <<streamVars, fetchVars, genVars, moreVars>>)
  /\ WF_vars(FetchSettle /\ UNCHANGED <<streamVars, fetchVars, genVars, moreVars>>)
  /\ WF_vars(BatchReturn /\ UNCHANGED <<streamVars, fetchVars, genVars, moreVars>>)

(***************************************************************************)
(* Properties of the streaming assembler                                   *)
(***************************************************************************)
\* the text of the text parts (or text fragments) of ps, concatenated
RECURSIVE ConcatText(_)
ConcatText(ps) ==
  IF ps = <<>> THEN <<>>
  ELSE (IF Head(ps).text # None THEN Head(ps).text[1] ELSE <<>>)
         \o ConcatText(Tail(ps))

\* a URL whose image was fetched successfully in this run
Resolved(url, n) == isValidImageUrl(url) /\ url \in DOMAIN n /\ n[url] = "ok"

\* text without the markup of the references that were resolved
RECURSIVE StripResolved(_, _, _)
StripResolved(text, from, n) ==
  LET m == RegexExec(text, from) IN
  IF m = <<>> THEN Slice(text, from, Len(text))
  ELSE Slice(text, from, m[1] - 1)
         \o (IF Resolved(Slice(text, m[2] + 2, m[3] - 1), n)
             THEN <<>> ELSE Slice(text, m[1], m[3]))
         \o StripResolved(text, m[3] + 1, n)

\* C1: when the run is over, the text of the final part list, concatenated
\* in order, is the text of all text fragments in arrival order without the
\* markup that was replaced by resolved images
OrderPreservation ==
  pc = "done" =>
    ConcatText(currentParts) = StripResolved(ConcatText(frags), 1, net)

\* the matches of the image regex in text, left to right
RECURSIVE Matches(_, _)
Matches(text, from) ==
  LET m == RegexExec(text, from) IN
  IF m = <<>> THEN <<>> ELSE <<m>> \o Matches(text, m[3] + 1)

\* text occurs in whole at position q
OccursAt(text, q, whole) ==
  /\ q >= 1
  /\ q + Len(text) - 1 <= Len(whole)
  /\ SubSeq(whole, q, q + Len(text) - 1) = text

\* the last non-blank token of text before position q, "" if none
RECURSIVE TokenBefore(_, _)
TokenBefore(text, q) ==
  IF q <= 1 THEN ""
  ELSE IF text[q - 1] # Space THEN text[q - 1]
  ELSE TokenBefore(text, q - 1)

\* the first non-blank token of text after position q, "" if none
RECURSIVE TokenAfter(_, _)
TokenAfter(text, q) ==
  IF q >= Len(text) THEN ""
  ELSE IF text[q + 1] # Space THEN text[q + 1]
  ELSE TokenAfter(text, q + 1)

\* the i-th reference of buffer is directly preceded (followed) by plain text
PlainBefore(buffer, ms, i) ==
  /\ TokenBefore(buffer, ms[i][1]) # ""
  /\ (i > 1 => \E q \in (ms[i - 1][3] + 1)..(ms[i][1] - 1) : buffer[q] # Space)

PlainAfter(buffer, ms, i) ==
  /\ TokenAfter(buffer, ms[i][3]) # ""
  /\ (i < Len(ms) => \E q \in (ms[i][3] + 1)..(ms[i + 1][1] - 1) : buffer[q] # Space)

\* the markup of the i-th reference of buffer stands in output, verbatim,
\* after the plain text that preceded it and before the plain text that
\* followed it
KeptInPlace(buffer, ms, i, output) ==
  LET markup == SubSeq(buffer, ms[i][1], ms[i][3]) IN
  \E q \in 1..Len(output) :
    /\ OccursAt(markup, q, output)
    /\ PlainBefore(buffer, ms, i) =>
         TokenBefore(output, q) = TokenBefore(buffer, ms[i][1])
    /\ PlainAfter(buffer, ms, i) =>
         TokenAfter(output, q + Len(markup) - 1) = TokenAfter(buffer, ms[i][3])

\* C2: every reference of a resolution pass that failed to resolve keeps its
\* original markup, verbatim and in its original position relative to the
\* surrounding text
NoLoss ==
  lastPass.ran =>
    LET ms == Matches(lastPass.buffer, 1) IN
    \A i \in 1..Len(ms) :
      lastPass.results[i] = None =>
        KeptInPlace(lastPass.buffer, ms, i, ConcatText(lastPass.parts))

\* the parts of a pass in textual order: each non-blank plain segment as a
\* text part, each reference as its image
RECURSIVE InTextOrder(_, _, _, _, _)
InTextOrder(buffer, from, res, i, proto) ==
  LET m == RegexExec(buffer, from)
      seg == Slice(buffer, from, (IF m = <<>> THEN Len(buffer) ELSE m[1] - 1))
      segPart == IF NonBlank(seg)
                 THEN <<TextPart(seg, proto.thought, proto.thoughtSignature)>>
                 ELSE <<>>
  IN IF m = <<>> THEN segPart
     ELSE segPart
            \o <<InlinePart(res[i][1].mimeType, res[i][1].base64Data,
                            proto.thought, proto.thoughtSignature)>>
            \o InTextOrder(buffer, m[3] + 1, res, i + 1, proto)

AllResolved(pass) == \A i \in 1..Len(pass.results) : pass.results[i] # None
NoneResolved(pass) == \A i \in 1..Len(pass.results) : pass.results[i] = None

\* C3: a pass whose references all resolve emits the plain segments and the
\* images in their left-to-right textual order
TextualOrder ==
  (lastPass.ran /\ AllResolved(lastPass)) =>
    lastPass.parts = InTextOrder(lastPass.buffer, 1, lastPass.results, 1,
                                 lastPass.parts[1])

\* C4: a pass whose references all fail produces, concatenated in order,
\* exactly the text of its buffer
RoundTripOnFailure ==
  (lastPass.ran /\ NoneResolved(lastPass)) =>
    ConcatText(lastPass.parts) = lastPass.buffer

(***************************************************************************)
(* Properties of the batch downloader                                      *)
(***************************************************************************)
\* C5: at every moment of a call, and in the array it returns, results has
\* one entry per URL, and entry i is non-null exactly when urls[i] passed
\* validation and its fetch succeeded; it then holds the payload of urls[i]
BatchAlignment ==
  bpc # "idle" =>
    /\ Len(results) = Len(urls)
    /\ \A i \in 1..Len(urls) :
         /\ results[i] # None <=>
              (isValidImageUrl(urls[i]) /\ fetchOutcome[i] = "ok")
         /\ results[i] # None =>
              /\ results[i][1].url = urls[i]
              /\ results[i][1].base64Data = Payload(urls[i]).base64Data
              /\ results[i][1].mimeType = Payload(urls[i]).mimeType

\* three URLs, the second one failed: [ok, null, ok]
BatchAlignmentWitness ==
  /\ bpc = "returned"
  /\ Len(urls) = 3
  /\ concurrency = 2
  /\ results[1] # None
  /\ isValidImageUrl(urls[2]) /\ fetchOutcome[2] = "timeout" /\ results[2] = None
  /\ results[3] # None

\* C6: never more than `concurrency` fetches in flight
ConcurrencyCap == Cardinality(inFlight) <= concurrency

\* the wave of index i
WaveOf(i) == (i - 1) \div concurrency

\* the fetch of index i has resolved, failed or timed out, or was skipped
Settled(i) ==
  /\ i \notin inFlight
  /\ isValidImageUrl(urls[i]) => fetchOutcome[i] # ""

\* C7: while a fetch of a wave is in flight every index of the earlier waves
\* is settled, and the fetches of one wave are issued together: no valid URL
\* of the wave waits for another fetch of its wave
WaveOrdering ==
  bpc = "running" =>
    \A i \in inFlight :
      \A j \in 1..Len(urls) :
        /\ WaveOf(j) < WaveOf(i) => Settled(j)
        /\ (WaveOf(j) = WaveOf(i) /\ isValidImageUrl(urls[j])) =>
             (j \in inFlight \/ fetchOutcome[j] # "")

(***************************************************************************)
(* Properties of the Part Merger                                           *)
(***************************************************************************)
\* the fragments delivered by the provider stream so far
Delivered == frags \o todo

IsText(f) == f.text # None

\* fragment i of fs starts a new part under rules 1-3
StartsPart(fs, i) ==
  \/ i = 1
  \/ ~IsText(fs[i])
  \/ ~IsText(fs[i - 1])
  \/ fs[i].thought # fs[i - 1].thought

PartStarts(fs) == {i \in 1..Len(fs) : StartsPart(fs, i)}

\* the index of the fragment that starts the k-th part
KthStart(fs, k) ==
  CHOOSE i \in PartStarts(fs) : Cardinality({j \in PartStarts(fs) : j <= i}) = k

\* the last fragment of the part that fragment i starts
RunEnd(fs, i) ==
  CHOOSE e \in i..Len(fs) :
    /\ \A j \in (i + 1)..e : ~StartsPart(fs, j)
    /\ e = Len(fs) \/ StartsPart(fs, e + 1)

\* parts holds one part per maximal run of fs: the text of a run of text
\* fragments with one isThought value concatenated in arrival order, and
\* one part per binary fragment
GroupedAs(parts, fs) ==
  /\ Len(parts) = Cardinality(PartStarts(fs))
  /\ \A k \in 1..Len(parts) :
       LET i == KthStart(fs, k) IN
       /\ parts[k].thought = fs[i].thought
       /\ IF IsText(fs[i])
          THEN /\ parts[k].inlineData = None
               /\ parts[k].text = Some(ConcatText(SubSeq(fs, i, RunEnd(fs, i))))
          ELSE /\ parts[k].text = None
               /\ parts[k].inlineData # None
               /\ parts[k].inlineData[1].data = fs[i].inlineData[1].data

NoBinary(fs) == \A i \in 1..Len(fs) : IsText(fs[i])

\* the stream ended normally and was never cancelled.  Every sequence of
\* fragments is delivered in full by such a run, so a function of the
\* fragments alone is evaluated on all of them when it is evaluated here
Finished == pc = "done" /\ exit = "end" /\ ~aborted

\* the generator has not ended; its lists do not change afterwards
Running == pc \in {"read", "resolving"}

\* C8: the merge loops coalesce a text fragment into the last part exactly
\* when that part is text with the same isThought: the server-side loop, the
\* non-streaming loop without CDN processing, and the client loop as long as
\* only its regular-text branch has run, hold one text part per run
ThoughtGrouping ==
  /\ Running => GroupedAs(serverParts, Delivered)
  /\ Finished => GroupedAs(processSdkParts(frags, FALSE, net), frags)
  /\ (pc = "read" /\ ~lastPass.ran /\ NoBinary(frags)) => GroupedAs(yielded, frags)

\* two consecutive thought fragments are one part, and a fragment of the
\* other thought state is a second one
ThoughtGroupingWitness ==
  /\ pc = "read"
  /\ Len(frags) = 3
  /\ frags[1].thought /\ frags[2].thought /\ ~frags[3].thought
  /\ NoBinary(frags)
  /\ Len(serverParts) = 2
  /\ Len(yielded) = 2
  /\ yielded[1].text = Some(frags[1].text[1] \o frags[2].text[1])

\* C9 (client loop): a step that processes exactly one fragment, a binary
\* one, appends exactly one part and leaves the existing parts as they were
BinaryNonCoalescing ==
  [][(Len(frags') = Len(frags) + 1 /\ ~IsText(frags'[Len(frags')]))
       => /\ Len(currentParts') = Len(currentParts) + 1
          /\ SubSeq(currentParts', 1, Len(currentParts)) = currentParts
          /\ currentParts'[Len(currentParts')].text = None]_vars

\* C10: when the loop is left because the signal was aborted, the last
\* snapshot is what the non-streaming assembler returns for the fragments
\* processed until then
CancelAgreement ==
  exit = "abort" =>
    yielded = processSdkParts(frags, enableCdnImageProcessing, net)

\* C11: a call of batchDownloadImages never fails: it is never rejected,
\* once every download has settled it returns its array, and at that point
\* every URL that passed validation has been fetched, whatever the outcome
\* of the other fetches
BatchNeverFails ==
  /\ [](bpc # "rejected")
  /\ [](bpc = "returned" =>
          \A i \in 1..Len(urls) :
            isValidImageUrl(urls[i]) => fetchOutcome[i] # "")
  /\ <>(bpc = "returned")

\* a call with a malformed URL, a timeout, a failed request and a
\* successful download has returned
BatchNeverFailsWitness ==
  /\ bpc = "returned"
  /\ Len(urls) = 4
  /\ urls[1] = <<NoScheme>>
  /\ fetchOutcome[2] = "timeout"
  /\ fetchOutcome[3] = "network"
  /\ fetchOutcome[4] = "ok"
  /\ SubSeq(results, 1, 3) = <<None, None, None>>
  /\ results[4] # None

\* C12: a call of downloadImageAsBase64 is never pending later than
\* `timeout` after its start, whether it waits for the headers or for the
\* body, and a call ended by the timer fails with the timeout error
TimeoutBound ==
  /\ clock <= timeout
  /\ (fpc = "rejected" /\ signalAborted => fError = "timeout")

\* C14: once the provider stream has raised, the assembler has thrown an
\* error to its caller and has not ended normally, it yields no further
\* snapshot, and it stays failed: the one error is the end of the run
ProviderErrorThrows ==
  /\ [](raised => pc = "failed" /\ exit = "error")
  /\ [][raised' => yielded' = yielded]_vars
  /\ [][exit = "error" => exit' = "error" /\ pc' = "failed"]_vars

\* the provider raised after two chunks were delivered and yielded, with the
\* signal aborted and text still in the buffer
ProviderErrorThrowsWitness ==
  /\ raised
  /\ exit = "error"
  /\ aborted
  /\ Len(frags) >= 2
  /\ yielded = currentParts
  /\ Len(yielded) >= 2
  /\ NonBlank(pendingTextBuffer)

\* the last n parts of a list
LastParts(parts, n) == SubSeq(parts, Len(parts) - n + 1, Len(parts))

\* the latest pass had a fetch that failed
PassFailed(pass) == \E i \in DOMAIN pass.results : pass.results[i] = None

\* C13: a pass in which a fetch failed does not end the stream: when it
\* settles the run is neither ended nor failed, the fragment is consumed,
\* what the pass produced is in the part list, the rest of the chunk is
\* processed and, unless a further pass has to be awaited, the snapshot of
\* the chunk is yielded; only an error of the provider makes the run throw
FetchFailureKeepsStreaming ==
  /\ [][(pc = "resolving" /\ frags' # frags /\ PassFailed(lastPass')) =>
          /\ pc' \in {"read", "resolving"}
          /\ exit' = ""
          /\ Len(todo) = 1 =>
               /\ Len(currentParts') >= Len(lastPass'.parts)
               /\ LastParts(currentParts', Len(lastPass'.parts)) = lastPass'.parts
          /\ pc' = "read" =>
               /\ yielded' = currentParts'
               /\ todo' = <<>>
               /\ frags' = frags \o todo]_vars
  /\ [](exit = "error" => raised)

\* after a pass in which every fetch failed, a binary fragment of a later
\* chunk was merged and the stream ended normally
FetchFailureKeepsStreamingWitness ==
  /\ pc = "done"
  /\ exit = "end"
  /\ PassFailed(lastPass)
  /\ \A i \in DOMAIN lastPass.results : lastPass.results[i] = None
  /\ Len(frags) = 3
  /\ ~HasText(currentParts[Len(currentParts)])
  /\ Len(yielded) > Len(lastPass.parts)
  /\ SubSeq(yielded, Len(yielded) - Len(lastPass.parts), Len(yielded) - 1)
       = lastPass.parts

\* the content of a part list in order: one item per token of text and one
\* per binary part
RECURSIVE Items(_)
Items(parts) ==
  IF parts = <<>> THEN <<>>
  ELSE (IF HasText(Head(parts))
        THEN [i \in 1..Len(Head(parts).text[1]) |->
                [text |-> <<Head(parts).text[1][i]>>, data |-> <<>>]]
        ELSE <<[text |-> <<>>, data |-> Head(parts).inlineData[1].data]>>)
         \o Items(Tail(parts))

\* the content of a response when every fragment is replaced, at its own
\* position, by what it is turned into
RECURSIVE ItemsInPlace(_, _, _)
ItemsInPlace(parts, enabled, n) ==
  IF parts = <<>> THEN <<>>
  ELSE LET part == Head(parts) IN
       (IF part.text # None /\ enabled /\ containsCdnImages(part.text[1])
        THEN Items(processTextWithCdnImages(part.text[1], part.thought,
                      part.thoughtSignature, OutcomesOfText(part.text[1], n)))
        ELSE Items(<<part>>))
         \o ItemsInPlace(Tail(parts), enabled, n)

\* C15: the parts processSdkParts makes of a text fragment with image
\* references stand in the returned list at the position of that fragment
\* among the other fragments of the response
InPlaceSplice ==
  gpc = "returned" => Items(modelParts) = ItemsInPlace(response, gEnable, gNet)

\* no text fragment of fs holds any image markup, complete or partial
NoMarkup(fs) ==
  \A i \in DOMAIN fs :
    fs[i].text # None => \A k \in DOMAIN fs[i].text[1] : fs[i].text[1][k] # "!"

\* C16: while the response holds no image markup, the snapshot the client
\* assembler yields after each chunk is the part list of the plain merge
\* loop for the same chunks, with CDN processing enabled or disabled
StandardUnaffected ==
  (pc = "read" /\ NoMarkup(frags)) => yielded = serverParts

\* C17: when the provider stream has ended, the part list of the assembler,
\* with the part flushed from the pending buffer, is the last snapshot it
\* yielded: the flush reached the caller and nothing changed after it
EndFlushDelivered ==
  (pc = "done" /\ exit = "end") => yielded = currentParts

\* C18: when a resolution pass settles after the signal was aborted, its
\* parts are not spliced into the part list, no snapshot is yielded, and no
\* further pass is started
CancelDiscardsPass ==
  [][(pc = "resolving" /\ aborted) =>
       /\ currentParts' = currentParts
       /\ yielded' = yielded
       /\ (frags' # frags => pc' # "resolving")]_vars

\* text ends with the tokens of tail
EndsWith(text, tail) ==
  /\ Len(tail) <= Len(text)
  /\ SubSeq(text, Len(text) - Len(tail) + 1, Len(text)) = tail

\* the matches of the image regex in buffer that begin before position b
\* and end at or after it: markup split between the text that was buffered
\* before and the fragment that begins at b
SplitMatches(buffer, b) ==
  LET ms == Matches(buffer, 1) IN
  {ms[i] : i \in {j \in DOMAIN ms : ms[j][1] < b /\ b <= ms[j][3]}}

\* some text part of parts ends with an opening piece of the markup that
\* match m has in buffer, cut before position b
PartialShown(parts, buffer, m, b) ==
  \E i \in DOMAIN parts, k \in (m[1] + 1)..(b - 1) :
    HasText(parts[i]) /\ EndsWith(parts[i].text[1], SubSeq(buffer, m[1], k))

\* C19: a pass is awaited only for a buffer that holds complete markup;
\* when the pass for markup that was split between fragments settles with
\* its image resolved, the buffer is cleared, so that the reference is
\* resolved once, and no text part is left that ends with the opening piece
\* of that markup
SplitMarkupResolvedOnce ==
  /\ [](pc = "resolving" => containsCdnImages(pendingTextBuffer))
  /\ [][(pc = "resolving" /\ frags' # frags /\ Len(todo) = 1) =>
          LET b == Len(pendingTextBuffer) - Len(Head(todo).text[1]) + 1 IN
          \A m \in SplitMatches(pendingTextBuffer, b) :
            Resolved(Slice(pendingTextBuffer, m[2] + 2, m[3] - 1), net') =>
              /\ pendingTextBuffer' = <<>>
              /\ ~PartialShown(currentParts', pendingTextBuffer, m, b)]_vars

\* every part of the list holds text or binary data, and not both
Tagged(parts) ==
  \A i \in DOMAIN parts : (parts[i].text # None) # (parts[i].inlineData # None)

\* C20: in every part list of the assemblers (the client's current list and
\* its last snapshot, the parts of a resolution pass, the list of the server
\* merge loop, and the list processSdkParts returns for the fragments of a
\* finished run) each part is a text part or a binary part, never both and
\* never neither
TaggedUnion ==
  /\ Tagged(currentParts)
  /\ Tagged(yielded)
  /\ Tagged(lastPass.parts)
  /\ Tagged(serverParts)
  /\ Finished => Tagged(processSdkParts(frags, enableCdnImageProcessing, net))

\* a finished run whose last snapshot holds a text part, a binary part of
\* the provider and an image resolved from a reference
TaggedUnionWitness ==
  /\ pc = "done"
  /\ lastPass.ran
  /\ \E i, j, k \in DOMAIN yielded :
       /\ yielded[i].text # None
       /\ yielded[j].inlineData # None
       /\ yielded[j].inlineData[1].data = <<"B1">>
       /\ yielded[k].inlineData # None
       /\ yielded[k].inlineData[1].data = Payload(<<UrlPng>>).base64Data

\* the text the buffer held before the fragment of the pass was added
BufferBefore == SubSeq(pendingTextBuffer, 1,
                       Len(pendingTextBuffer) - Len(Head(todo).text[1]))

\* part i of the part list is the part that holds the buffer's own text:
\* the last part, text of the thought state of the pass, with exactly the
\* text buffered before
OwnPart(i) ==
  /\ i = Len(currentParts)
  /\ HasText(currentParts[i])
  /\ currentParts[i].thought = Head(todo).thought
  /\ BufferBefore # <<>>
  /\ currentParts[i].text[1] = BufferBefore

\* C21: when a pass settles, the new part list is the old one followed by
\* the parts of the pass, with at most one old part removed, and a removed
\* part is the one that holds the buffer's own text
SpliceScope ==
  [][(pc = "resolving" /\ frags' # frags /\ Len(todo) = 1) =>
       \/ currentParts' = currentParts \o lastPass'.parts
       \/ \E i \in DOMAIN currentParts :
            /\ OwnPart(i)
            /\ currentParts' = RemoveAt(currentParts, i) \o lastPass'.parts]_vars

\* the text fragments of fs from position k on all arrived with isThought
OneThoughtFrom(fs, k, isThought) ==
  \A j \in k..Len(fs) : IsText(fs[j]) => fs[j].thought = isThought

\* C22: the buffer a pass works on is the text of fragments of one thought
\* state, and every part the pass emits carries that state: text that came
\* as thought is not emitted as answer text, nor the reverse
ThoughtScoping ==
  [][(pc = "resolving" /\ frags' # frags /\ Len(todo) = 1) =>
       /\ \E k \in 1..(Len(frags) + 1) :
            /\ BufferBefore = ConcatText(SubSeq(frags, k, Len(frags)))
            /\ OneThoughtFrom(frags, k, Head(todo).thought)
       /\ \A i \in DOMAIN lastPass'.parts :
            lastPass'.parts[i].thought = Head(todo).thought]_vars

\* C23: from one snapshot to the next, every part of the earlier snapshot
\* other than its last is at the same index with the same content
SnapshotPrefixStable ==
  [][\A i \in 1..(Len(yielded) - 1) :
       i <= Len(yielded') /\ yielded'[i] = yielded[i]]_vars

\* the signature of the last fragment among fs[i..e] that carries one
SignatureOfRun(fs, i, e) ==
  LET signed == {j \in i..e : fs[j].thoughtSignature # ""} IN
  IF signed = {} THEN ""
  ELSE fs[CHOOSE j \in signed : \A m \in signed : m <= j].thoughtSignature

\* every text part of parts carries the signature of the last fragment of
\* its run that carries one, and none if no fragment of the run does
SignedAs(parts, fs) ==
  /\ Len(parts) = Cardinality(PartStarts(fs))
  /\ \A k \in 1..Len(parts) :
       LET i == KthStart(fs, k) IN
       IsText(fs[i]) =>
         parts[k].thoughtSignature = SignatureOfRun(fs, i, RunEnd(fs, i))

\* C24: in the server-side merge loop, and in the client loop as long as only
\* its regular-text branch has run, a coalesced fragment replaces the
\* signature of the part if it carries one and leaves it otherwise, so a text
\* part carries the signature of the last signed fragment merged into it.
\* Stated between chunks, where both loops have taken the same fragments
SignatureRule ==
  [](pc = "read" =>
       /\ SignedAs(serverParts, frags)
       /\ (~lastPass.ran /\ NoBinary(frags)) => SignedAs(yielded, frags))

\* one part merged from a fragment signed s1, one signed s2 and an unsigned
\* one keeps s2
SignatureRuleWitness ==
  /\ pc = "read"
  /\ ~lastPass.ran
  /\ Len(frags) = 3
  /\ frags[1].thoughtSignature = "s1"
  /\ frags[2].thoughtSignature = "s2"
  /\ frags[3].thoughtSignature = ""
  /\ Len(serverParts) = 1
  /\ serverParts[1].thoughtSignature = "s2"
  /\ yielded = serverParts

\* C25: no fetch is ever issued for a URL that isValidImageUrl rejects and
\* its entry stays null; the other URLs are processed all the same: when
\* the call returns every URL that passed validation has been fetched
ValidationGate ==
  bpc # "idle" =>
    /\ \A i \in 1..Len(urls) :
         ~isValidImageUrl(urls[i]) =>
           /\ i \notin inFlight
           /\ fetchOutcome[i] = ""
           /\ results[i] = None
    /\ bpc = "returned" =>
         \A i \in 1..Len(urls) :
           isValidImageUrl(urls[i]) => fetchOutcome[i] # ""

\* a malformed URL and a well-formed one that is not an image URL, each
\* followed in its processBatch by a URL that was fetched
ValidationGateWitness ==
  /\ bpc = "returned"
  /\ concurrency = 2
  /\ urls = <<<<NoScheme>>, <<UrlPng>>, <<UrlPlain>>, <<UrlPngB>>>>
  /\ fetchOutcome = <<"", "ok", "", "ok">>
  /\ results[1] = None /\ results[3] = None
  /\ results[2] # None /\ results[4] # None

(***************************************************************************)
(* Properties of the Image Reference Parser                                *)
(***************************************************************************)
\* the plain-text runs of text before, between and after the matches ms
TextRuns(text, ms) ==
  [k \in 1..(Len(ms) + 1) |->
     Slice(text,
           IF k = 1 THEN 1 ELSE ms[k - 1][3] + 1,
           IF k <= Len(ms) THEN ms[k][1] - 1 ELSE Len(text))]

\* C26: the value parseMarkdownImages returns holds the references of the
\* text from left to right with their alt and url, and the plain-text runs
\* around them in order without the blank ones; a non-blank text without a
\* reference comes back as the single segment that is the whole text, and
\* markup that does not match stays in the text
ParseResult ==
  ppc = "returned" =>
    LET ms == Matches(pText, 1)
        r == pResult[1]
    IN /\ Len(r.imageUrls) = Len(ms)
       /\ \A k \in 1..Len(ms) :
            /\ r.imageUrls[k].alt = Slice(pText, ms[k][1] + 2, ms[k][2] - 1)
            /\ r.imageUrls[k].url = Slice(pText, ms[k][2] + 2, ms[k][3] - 1)
       /\ r.textParts = SelectSeq(TextRuns(pText, ms), NonBlank)
       /\ (ms = <<>> /\ NonBlank(pText)) => r.textParts = <<pText>>

(***************************************************************************)
(* Properties of the SSE client                                            *)
(***************************************************************************)
\* the lines of body that are ended by a newline
CompleteLines(body) ==
  LET lines == SplitLines(body) IN SubSeq(lines, 1, Len(lines) - 1)

\* line is a data line whose JSON carries a non-empty error field
IsErrorLine(line) ==
  /\ StartsWith(line, DataField)
  /\ JsonParse(Trim(Tail(line))).ok
  /\ JsonParse(Trim(Tail(line))).error # ""

\* C27: once the data line of an error event has been read in full, and
\* the caller has not aborted, the generator has ended by throwing an error
\* with the message of the event
ErrorSurfacing ==
  \A k \in DOMAIN CompleteLines(sseSent) :
    LET line == CompleteLines(sseSent)[k] IN
    (IsErrorLine(line) /\ ~sseAborted) =>
      /\ spc = "thrown"
      /\ sseError = JsonParse(Trim(Tail(line))).error

\* line is the event line or the data line of the done event
IsDoneLine(line) ==
  /\ StartsWith(line, EventField) \/ StartsWith(line, DataField)
  /\ Trim(Tail(line)) = <<"done">>

\* line is a data line whose JSON is a chunk
IsChunkLine(line) ==
  /\ StartsWith(line, DataField)
  /\ JsonParse(Trim(Tail(line))).ok
  /\ JsonParse(Trim(Tail(line))).error = ""

\* the modelParts of the chunk lines among lines[from..], up to the done
\* event
RECURSIVE ChunksBeforeDone(_, _)
ChunksBeforeDone(lines, from) ==
  IF from > Len(lines) \/ IsDoneLine(lines[from]) THEN <<>>
  ELSE (IF IsChunkLine(lines[from])
        THEN <<JsonParse(Trim(Tail(lines[from]))).modelParts>> ELSE <<>>)
         \o ChunksBeforeDone(lines, from + 1)

\* C28: however the body is cut into reads, the items yielded so far are
\* the chunks of the lines received in full, once each and in the order of
\* the body, and none that follows the done event
FramingIndependent ==
  sseYielded = ChunksBeforeDone(CompleteLines(sseSent), 1)

\* two chunks and the done event were read, a read ended inside a data
\* line, and both chunks were yielded in order
FramingIndependentWitness ==
  /\ spc = "returned"
  /\ ~sseAborted
  /\ sseSplit
  /\ wire = <<>>
  /\ sseYielded = <<"P1", "P2">>

(***************************************************************************)
(* Properties of the chat view                                             *)
(***************************************************************************)
\* C29: whenever isLoading is true it is later false again, with the abort
\* controller reference cleared, on every path handleSend can take once
\* its requests settle and the stream ends
LoadingReleased == isLoading ~> (~isLoading /\ abortController = "null")

\* a message other than the placeholder of the request is as it was made
Untouched(m) ==
  m.id # modelMessage.id =>
    m \in {userMessage} \cup {OldMessages(c)[i] : c \in 1..MaxConvs, i \in 1..2}

\* C30: whatever the user does in the history panel while the request
\* runs, no message other than the placeholder of the request is changed,
\* neither in the store nor in the backend
StreamingOwnMessage ==
  /\ \A i \in DOMAIN messages : Untouched(messages[i])
  /\ \A c \in ConvIds : \A i \in DOMAIN backend[c] : Untouched(backend[c][i])

====
